---- MODULE Spec2Model ----
(***************************************************************************)
(* PlaygroundQueryExecutor (libs/python/playground_query_executor.py):     *)
(* one query execution = submission POST, status polling with a bounded    *)
(* retry loop, classification of the final status, result download.        *)
(* The remote service and the network are the environment: every response  *)
(* is drawn from a small set.  History variables (posts, gets, sleeps,     *)
(* downloads, observed) record the calls the executor has made.            *)
(***************************************************************************)
EXTENDS Integers, Sequences, FiniteSets, TLC

(* ---------------------------- bounds ---------------------------------- *)
MaxRetry == 3

MaxQueryLen == 3

Retries == 0..MaxRetry
\* job default 15 (etl_athena_load_api.py:226), constructor default 60
Delays == {15, 60}
WarmUpDelay == 20

(* ------------------------- python values ------------------------------ *)
\* A str is a sequence of fragments (so that an f-string is a concatenation
\* and "contains" can be asked); None is a value of its own.
None == [t |-> "None", v |-> <<>>]
PyStr(s) == [t |-> "str", v |-> <<s>>]
\* f"{prefix}{x}": str(None) is the text "None"
FStr(prefix, x) == [t |-> "str", v |-> <<prefix>> \o (IF x.t = "None" THEN <<"None">> ELSE x.v)]
Contains(text, s) == text.t = "str" /\ \E i \in 1..Len(text.v) : text.v[i] = s

\* A parsed JSON object: the keys the executor reads; Absent = key not present.
Absent == "<absent>"
Keys == {"QueryId", "QueryStatus", "Message", "ResultsDownloadLink"}
Dict(qid, st, msg, link) ==
    [QueryId |-> qid, QueryStatus |-> st, Message |-> msg, ResultsDownloadLink |-> link]
EmptyDict == Dict(Absent, Absent, Absent, Absent)
Has(d, k) == d[k] # Absent
\* d.get(k, default)
DictGet(d, k, default) == IF Has(d, k) THEN PyStr(d[k]) ELSE default

(* --------------------------- the remote ------------------------------- *)
QueryIds == {"q1", "q2"}
Statuses == {"RUNNING", "SUCCEEDED", "FAILED", "CANCELLED"}
STILL_RUNNING_TEXT == "Query still running after retries."
Messages == {"syntax error", STILL_RUNNING_TEXT}
Links == {"https://dl/1", "https://dl/2"}
CsvBodies == {"a,b\n1,2\n3,4", ""}

PostBodies == {Dict(q, Absent, Absent, Absent) : q \in QueryIds \cup {Absent}}
StatusBodies ==
    {Dict(Absent, st, m, l) : st \in Statuses \cup {Absent},
                              m \in Messages \cup {Absent},
                              l \in Links \cup {Absent}}

\* What api.make_request can hand back: a requests.Response (status_code,
\* reason, a body that json() parses or not) or an object with no status_code.
HttpResponse(code, reason, ok, body) ==
    [has_status_code |-> TRUE, status_code |-> code, reason |-> reason,
     json_ok |-> ok, body |-> body]
RawResponse(body) ==
    [has_status_code |-> FALSE, status_code |-> 0, reason |-> "",
     json_ok |-> TRUE, body |-> body]
ErrorBody == Dict(Absent, Absent, "Internal error", Absent)
StatusLines == {<<200, "OK">>, <<500, "Internal Server Error">>}
Responses(bodies) ==
    {HttpResponse(sl[1], sl[2], TRUE, b) : sl \in StatusLines, b \in bodies \cup {ErrorBody}}
    \cup {HttpResponse(sl[1], sl[2], FALSE, EmptyDict) : sl \in StatusLines}
    \cup {RawResponse(b) : b \in bodies}

\* what the executor reads of a response besides its body
StatusLineOf(r) ==
    [has_status_code |-> r.has_status_code, status_code |-> r.status_code,
     reason |-> r.reason, json_ok |-> r.json_ok]
\* nothing received yet
NoResponse ==
    [has_status_code |-> FALSE, status_code |-> 0, reason |-> "<none>", json_ok |-> FALSE]

(* ------------------------ errors and outcomes ------------------------- *)
Error(type, arg, where) == [type |-> type, arg |-> arg, raised_in |-> where]
NoError == Error("", None, "")
NoResp == [exitcode |-> -1, message |-> None, data |-> EmptyDict]

Pending == [kind |-> "pending", err |-> NoError, returns |-> "", df |-> Absent]
Raised(e) == [kind |-> "raised", err |-> e, returns |-> "", df |-> Absent]
Returned(what, df) == [kind |-> "returned", err |-> NoError, returns |-> what, df |-> df]

(* ------------------------ build_query_payload ------------------------- *)
\* A query is a sequence of code points: ' ', '*', 'S', '~' are ASCII, 233 is not.
QueryChars == {32, 42, 83, 126, 233}
SeqsUpTo(S, n) == UNION {[1..k -> S] : k \in 0..n}
Queries == SeqsUpTo(QueryChars, MaxQueryLen)
WorkGroups == {"primary", "AmazonAthenaEngineV3"}
Targets == {"athena", "redshift", "ATHENA"}
AssumeRoles == {"no", "yes"}

\* the base64 alphabet of RFC 4648, index 0..63 at position 1..64
B64Chars ==
    <<"A", "B", "C", "D", "E", "F", "G", "H", "I", "J", "K", "L", "M", "N", "O", "P",
      "Q", "R", "S", "T", "U", "V", "W", "X", "Y", "Z", "a", "b", "c", "d", "e", "f",
      "g", "h", "i", "j", "k", "l", "m", "n", "o", "p", "q", "r", "s", "t", "u", "v",
      "w", "x", "y", "z", "0", "1", "2", "3", "4", "5", "6", "7", "8", "9", "+", "/">>
\* mutant: the alphabet indexed one off
B64_shifted(n) == B64Chars[((n + 1) % 64) + 1]

B64(n) == B64Chars[n + 1]

\* line 110: str.encode("ascii") accepts code points below 128 only
IsAscii(query) == \A i \in 1..Len(query) : query[i] < 128

\* line 111: base64.b64encode, three bytes to four characters, '=' padding
RECURSIVE b64encode(_)
b64encode(bytes) ==
    IF Len(bytes) = 0 THEN <<>>
    ELSE IF Len(bytes) = 1
         THEN <<B64(bytes[1] \div 4), B64((bytes[1] % 4) * 16), "=", "=">>
    ELSE IF Len(bytes) = 2
         THEN <<B64(bytes[1] \div 4),
                B64((bytes[1] % 4) * 16 + bytes[2] \div 16),
                B64((bytes[2] % 16) * 4), "=">>
    ELSE <<B64(bytes[1] \div 4),
           B64((bytes[1] % 4) * 16 + bytes[2] \div 16),
           B64((bytes[2] % 16) * 4 + bytes[3] \div 64),
           B64(bytes[3] % 64)>> \o b64encode(SubSeq(bytes, 4, Len(bytes)))

NoPayload == [Encoding |-> Absent]

\* mutant: one dict for every target, the target location always added
build_query_payload_merged(query, work_group, query_target_location, assume_role) ==
    IF ~IsAscii(query)
    THEN [raised |-> TRUE,
          err |-> Error("UnicodeEncodeError", PyStr("ascii"), "build_query_payload"),
          payload |-> NoPayload]
    ELSE [raised |-> FALSE,
          err |-> NoError,
          payload |-> [QueryString |-> b64encode(query),
                       Encoding |-> "base64",
                       WorkGroup |-> work_group,
                       AssumeRole |-> assume_role,
                       QueryTargetLocation |-> query_target_location]]

\* lines 110-132: the payload json.dumps serialises, as its key/value pairs
build_query_payload(query, work_group, query_target_location, assume_role) ==
    IF ~IsAscii(query)
    THEN [raised |-> TRUE,
          err |-> Error("UnicodeEncodeError", PyStr("ascii"), "build_query_payload"),
          payload |-> NoPayload]
    ELSE LET query_base64_string == b64encode(query) IN
         [raised |-> FALSE,
          err |-> NoError,
          payload |->
            IF query_target_location = "athena"
            THEN [QueryString |-> query_base64_string,
                  Encoding |-> "base64",
                  WorkGroup |-> work_group,
                  AssumeRole |-> assume_role]
            ELSE [QueryString |-> query_base64_string,
                  Encoding |-> "base64",
                  QueryTargetLocation |-> query_target_location]]

(* ------------------- _custom_json_response / _safe_api_call ----------- *)
\* mutant: a body that does not parse taken for an empty one
custom_json_response_lenient(response) ==
    IF response.has_status_code
    THEN IF ~response.json_ok
         THEN [exitcode |-> 0, message |-> PyStr("Success"), data |-> EmptyDict]
         ELSE IF response.status_code = 200
              THEN [exitcode |-> 0, message |-> PyStr("Success"), data |-> response.body]
              ELSE [exitcode |-> response.status_code,
                    message |-> FStr("Failed with error ", PyStr(response.reason)),
                    data |-> response.body]
    ELSE [exitcode |-> 0, message |-> None, data |-> response.body]

custom_json_response(response) ==
    IF response.has_status_code
    THEN IF ~response.json_ok
         THEN [exitcode |-> 1,
               message |-> FStr("Failed to parse response: ", PyStr("JSONDecodeError")),
               data |-> EmptyDict]
         ELSE IF response.status_code = 200
              THEN [exitcode |-> 0, message |-> PyStr("Success"), data |-> response.body]
              ELSE [exitcode |-> response.status_code,
                    message |-> FStr("Failed with error ", PyStr(response.reason)),
                    data |-> response.body]
    ELSE [exitcode |-> 0, message |-> None, data |-> response.body]

\* mutant: the exitcode check of line 93 left out
safe_api_call_unchecked(response) ==
    [raised |-> FALSE, err |-> NoError, json_resp |-> custom_json_response(response)]

safe_api_call(response) ==
    LET json_resp == custom_json_response(response) IN
    IF json_resp.exitcode # 0
    THEN [raised |-> TRUE,
          err |-> Error("Exception", FStr("API call failed: ", json_resp.message),
                        "_safe_api_call"),
          json_resp |-> NoResp]
    ELSE [raised |-> FALSE, err |-> NoError, json_resp |-> json_resp]

(* ------------------------------ state --------------------------------- *)
VARIABLES
    argv,           \* the job's optional arguments (sys.argv), Absent = not given
    entry,          \* the method the caller invoked: "run" or "fetch_query_results"
    self_retry,     \* self.retry
    self_delay,     \* self.delay
    self_query,     \* self.query
    self_work_group,             \* self.work_group
    self_query_target_location,  \* self.query_target_location
    self_assume_role,            \* self.assume_role
    payload,        \* run: query_payload, the body of the POST
    received,       \* the last response api.make_request handed back, less its body
    pc,             \* position in the run
    query_id,       \* run: query_id
    response,       \* poll_query_status: response (latest json_resp)
    query_status,   \* poll_query_status: query_status
    retry,          \* poll_query_status: retry (parameter, default 1)
    query_status_response,  \* run: what poll_query_status returned
    download_link,  \* fetch_query_results: download_link
    outcome,        \* how the caller's call ended
    posts,          \* history: the responses to the submission POSTs issued
    gets,           \* history: targets of the status GETs issued
    sleeps,         \* history: durations slept
    downloads,      \* history: links fetched with requests.get
    observed        \* history: QueryStatus of every status GET that succeeded

vars == <<argv, entry, self_retry, self_delay, self_query, self_work_group,
          self_query_target_location, self_assume_role, payload, received,
          pc, query_id, response, query_status, retry,
          query_status_response, download_link, outcome, posts, gets, sleeps,
          downloads, observed>>

locals == <<query_id, response, query_status, retry, query_status_response, download_link,
            payload, received>>
config == <<argv, entry, self_retry, self_delay, self_query, self_work_group,
            self_query_target_location, self_assume_role>>

\* nothing called yet: the locals and the history of a fresh executor
InitLocals ==
    /\ payload = NoPayload
    /\ received = NoResponse
    /\ query_id = Absent
    /\ response = NoResp
    /\ query_status = None
    /\ retry = 1
    /\ query_status_response = NoResp
    /\ download_link = Absent
    /\ outcome = Pending
    /\ posts = <<>>
    /\ gets = <<>>
    /\ sleeps = <<>>
    /\ downloads = <<>>
    /\ observed = <<>>

\* the optional job arguments of etl_athena_load_api.py lines 221-227
OptionalArgs ==
    {"work_group", "query_target_location", "assume_role",
     "query_status_retry", "query_status_retry_delay"}
\* sys.argv of a caller that is not the job: no --JOB_NAME, no optional argument
NoArgv == [k \in OptionalArgs \cup {"JOB_NAME"} |-> Absent]

\* the query of the runs: "S *"
RunQuery == <<83, 32, 42>>

\* an executor constructed by its caller (lines 23-51) with the default
\* work group, target and assume-role, about to be run
Init ==
    /\ entry \in {"run", "fetch_query_results"}
    /\ self_retry \in Retries
    /\ self_delay \in Delays
    /\ self_query = RunQuery
    /\ self_work_group = "primary"
    /\ self_query_target_location = "athena"
    /\ self_assume_role = "no"
    /\ argv = NoArgv
    /\ pc = "submit"
    /\ InitLocals

\* an exception leaves every frame: the call ends
Raise(e) ==
    /\ pc' = "done"
    /\ outcome' = Raised(e)

(* ------------------------- run: submission ---------------------------- *)
\* run lines 206-208: build_query_payload, submit_query (one POST through
\* _safe_api_call), query_id = response["data"]["QueryId"]
\* mutant: dict.get in place of the index of line 208
index_query_id_get(data) ==
    [raised |-> FALSE, err |-> NoError, value |-> data.QueryId]

\* line 208: response["data"]["QueryId"]
index_query_id(data) ==
    IF ~Has(data, "QueryId")
    THEN [raised |-> TRUE, err |-> Error("KeyError", PyStr("QueryId"), "run"),
          value |-> Absent]
    ELSE [raised |-> FALSE, err |-> NoError, value |-> data.QueryId]

Submit ==
    /\ pc = "submit"
    /\ LET built == build_query_payload(self_query, self_work_group,
                                        self_query_target_location, self_assume_role) IN
       IF built.raised
       THEN /\ Raise(built.err)
            /\ UNCHANGED <<payload, received, posts, query_id>>
       ELSE /\ payload' = built.payload
            /\ \E r \in Responses(PostBodies) :
                LET call == safe_api_call(r) IN
                /\ posts' = Append(posts, r)
                /\ received' = StatusLineOf(r)
                /\ IF call.raised
                   THEN Raise(call.err) /\ UNCHANGED query_id
                   ELSE LET qid == index_query_id(call.json_resp.data) IN
                        IF qid.raised
                        THEN Raise(qid.err) /\ UNCHANGED query_id
                        ELSE /\ query_id' = qid.value
                             /\ pc' = "poll_first"
                             /\ UNCHANGED outcome
    /\ UNCHANGED <<config, response, query_status, retry, query_status_response,
                   download_link, gets, sleeps, downloads, observed>>

(* ------------------------- poll_query_status -------------------------- *)
\* mutant: the status endpoint of some other query
api_endpoint_fixed(qid) == <<"queries", "q1">>

\* line 171: api_endpoint = f"{self.api._url}/queries/{query_id}"
api_endpoint(qid) == <<"queries", qid>>

\* mutant: the retry bound of the loop condition left out
LoopCondition_unbounded(status, n, limit) == status = PyStr("RUNNING")

\* mutant: the status test of the loop condition left out
LoopCondition_nostatus(status, n, limit) == n <= limit

\* mutants: the retry bound off by one, either way
LoopCondition_strict(status, n, limit) == status = PyStr("RUNNING") /\ n < limit
LoopCondition_extra(status, n, limit) == status = PyStr("RUNNING") /\ n <= limit + 1

\* line 180: while query_status == "RUNNING" and retry <= self.retry
LoopCondition(status, n, limit) == status = PyStr("RUNNING") /\ n <= limit

\* lines 172-177: the first status GET
PollFirst ==
    /\ pc = "poll_first"
    /\ \E r \in Responses(StatusBodies) :
        LET call == safe_api_call(r) IN
        /\ gets' = Append(gets, api_endpoint(query_id))
        /\ received' = StatusLineOf(r)
        /\ IF call.raised
           THEN Raise(call.err) /\ UNCHANGED <<response, query_status, observed>>
           ELSE /\ response' = call.json_resp
                /\ query_status' = DictGet(call.json_resp.data, "QueryStatus", None)
                /\ observed' = Append(observed, query_status')
                /\ pc' = "warm_up"
                /\ UNCHANGED outcome
    /\ UNCHANGED <<config, query_id, retry, query_status_response, download_link,
                   payload, posts, sleeps, downloads>>

\* mutant: the warm-up sleep skipped once the status is final
WarmUpSleep_if_running ==
    /\ pc = "warm_up"
    /\ sleeps' = IF query_status = PyStr("RUNNING")
                 THEN Append(sleeps, WarmUpDelay) ELSE sleeps
    /\ pc' = "loop"
    /\ UNCHANGED <<config, locals, outcome, posts, gets, downloads, observed>>

\* line 178: time.sleep(20)
WarmUpSleep ==
    /\ pc = "warm_up"
    /\ sleeps' = Append(sleeps, WarmUpDelay)
    /\ pc' = "loop"
    /\ UNCHANGED <<config, locals, outcome, posts, gets, downloads, observed>>

\* lines 180-194: one iteration of the retry loop up to its sleep
PollRetry ==
    /\ pc = "loop"
    /\ LoopCondition(query_status, retry, self_retry)
    /\ \E r \in Responses(StatusBodies) :
        LET call == safe_api_call(r) IN
        /\ gets' = Append(gets, api_endpoint(query_id))
        /\ received' = StatusLineOf(r)
        /\ IF call.raised
           THEN /\ Raise(call.err)
                /\ UNCHANGED <<response, query_status, observed, retry,
                               query_status_response>>
           ELSE /\ response' = call.json_resp
                /\ query_status' = DictGet(call.json_resp.data, "QueryStatus", None)
                /\ observed' = Append(observed, query_status')
                /\ UNCHANGED outcome
                /\ IF query_status' # PyStr("RUNNING")
                   THEN \* line 188: return response
                        /\ query_status_response' = response'
                        /\ pc' = "run_classify"
                        /\ UNCHANGED retry
                   ELSE /\ retry' = retry + 1
                        /\ pc' = "retry_sleep"
                        /\ UNCHANGED query_status_response
    /\ UNCHANGED <<config, query_id, download_link, payload, posts, sleeps, downloads>>

\* mutant: a delay that grows with the retry count
RetrySleep_backoff ==
    /\ pc = "retry_sleep"
    /\ sleeps' = Append(sleeps, self_delay * retry)
    /\ pc' = "loop"
    /\ UNCHANGED <<config, locals, outcome, posts, gets, downloads, observed>>

\* line 195: time.sleep(self.delay)
RetrySleep ==
    /\ pc = "retry_sleep"
    /\ sleeps' = Append(sleeps, self_delay)
    /\ pc' = "loop"
    /\ UNCHANGED <<config, locals, outcome, posts, gets, downloads, observed>>

\* lines 197-198: the loop condition is false: "Max retries reached", return response
PollReturn ==
    /\ pc = "loop"
    /\ ~LoopCondition(query_status, retry, self_retry)
    /\ query_status_response' = response
    /\ pc' = "run_classify"
    /\ UNCHANGED <<config, query_id, response, query_status, retry, download_link,
                   payload, received, outcome, posts, gets, sleeps, downloads, observed>>

(* ----------------------- run: classification -------------------------- *)
\* mutant: the error raised for a failed query names the status, not the Message
run_classify_status(data) ==
    IF ~Has(data, "QueryStatus")
    THEN Raised(Error("KeyError", PyStr("QueryStatus"), "run"))
    ELSE IF data.QueryStatus \in {"SUCCEEDED", "RUNNING"}
         THEN Returned("query_status_response", Absent)
         ELSE Raised(Error("Exception", PyStr(data.QueryStatus), "run"))

\* mutant: the RUNNING branch of lines 212-217 left out
run_classify_strict(data) ==
    IF ~Has(data, "QueryStatus")
    THEN Raised(Error("KeyError", PyStr("QueryStatus"), "run"))
    ELSE IF data.QueryStatus \in {"SUCCEEDED"}
         THEN Returned("query_status_response", Absent)
         ELSE Raised(Error("Exception", DictGet(data, "Message", None), "run"))

\* run lines 210-222, on the data of the snapshot poll_query_status returned
run_classify(data) ==
    IF ~Has(data, "QueryStatus")
    THEN Raised(Error("KeyError", PyStr("QueryStatus"), "run"))
    ELSE IF data.QueryStatus \in {"SUCCEEDED"}
         THEN Returned("query_status_response", Absent)
         ELSE IF data.QueryStatus = "RUNNING"
              THEN Returned("query_status_response", Absent)
              ELSE Raised(Error("Exception", DictGet(data, "Message", None), "run"))

\* mutant: the download branch taken for every snapshot run returns normally
fetch_classify_eager(data) ==
    IF ~Has(data, "QueryStatus")
    THEN Raised(Error("KeyError", PyStr("QueryStatus"), "fetch_query_results"))
    ELSE IF data.QueryStatus \in {"SUCCEEDED", "RUNNING"}
         THEN IF ~Has(data, "ResultsDownloadLink")
              THEN Raised(Error("KeyError", PyStr("ResultsDownloadLink"),
                                "fetch_query_results"))
              ELSE [kind |-> "download", err |-> NoError, returns |-> "", df |-> Absent]
         ELSE Returned("None", Absent)

\* mutant: the RUNNING branch of lines 244-248 left out (falls to the last else)
fetch_classify_soft(data) ==
    IF ~Has(data, "QueryStatus")
    THEN Raised(Error("KeyError", PyStr("QueryStatus"), "fetch_query_results"))
    ELSE IF data.QueryStatus = "SUCCEEDED"
         THEN IF ~Has(data, "ResultsDownloadLink")
              THEN Raised(Error("KeyError", PyStr("ResultsDownloadLink"),
                                "fetch_query_results"))
              ELSE [kind |-> "download", err |-> NoError, returns |-> "", df |-> Absent]
         ELSE IF data.QueryStatus = "FAILED"
              THEN Raised(Error("Exception",
                                DictGet(data, "Message", PyStr("Unknown error")),
                                "fetch_query_results"))
              ELSE Returned("None", Absent)

\* fetch_query_results lines 237-254, on the data of the snapshot run returned;
\* "download" stands for lines 239-243, done by Download
fetch_classify(data) ==
    IF ~Has(data, "QueryStatus")
    THEN Raised(Error("KeyError", PyStr("QueryStatus"), "fetch_query_results"))
    ELSE IF data.QueryStatus = "SUCCEEDED"
         THEN IF ~Has(data, "ResultsDownloadLink")
              THEN Raised(Error("KeyError", PyStr("ResultsDownloadLink"),
                                "fetch_query_results"))
              ELSE [kind |-> "download", err |-> NoError, returns |-> "", df |-> Absent]
         ELSE IF data.QueryStatus = "RUNNING"
              THEN Raised(Error("Exception", PyStr(STILL_RUNNING_TEXT),
                                "fetch_query_results"))
              ELSE IF data.QueryStatus = "FAILED"
                   THEN Raised(Error("Exception",
                                     DictGet(data, "Message", PyStr("Unknown error")),
                                     "fetch_query_results"))
                   ELSE Returned("None", Absent)

RunClassify ==
    /\ pc = "run_classify"
    /\ LET o == run_classify(query_status_response.data) IN
       IF o.kind = "returned" /\ entry = "fetch_query_results"
       THEN pc' = "fetch_classify" /\ UNCHANGED outcome
       ELSE pc' = "done" /\ outcome' = o
    /\ UNCHANGED <<config, locals, posts, gets, sleeps, downloads, observed>>

FetchClassify ==
    /\ pc = "fetch_classify"
    /\ LET o == fetch_classify(query_status_response.data) IN
       IF o.kind = "download"
       THEN /\ download_link' = query_status_response.data.ResultsDownloadLink
            /\ pc' = "download"
            /\ UNCHANGED outcome
       ELSE /\ pc' = "done"
            /\ outcome' = o
            /\ UNCHANGED download_link
    /\ UNCHANGED <<config, query_id, response, query_status, retry, payload, received,
                   query_status_response, posts, gets, sleeps, downloads, observed>>

\* pandas.read_csv on the downloaded text: no columns to parse from an empty body
read_csv(text) ==
    IF text = ""
    THEN Raised(Error("EmptyDataError", PyStr("No columns to parse from file"),
                      "fetch_query_results"))
    ELSE Returned("pd_df", text)

\* lines 240-243: requests.get(download_link), read_csv, return pd_df
Download ==
    /\ pc = "download"
    /\ downloads' = Append(downloads, download_link)
    /\ pc' = "done"
    /\ \/ outcome' = Raised(Error("ConnectionError", PyStr(download_link),
                                  "fetch_query_results"))
       \/ \E text \in CsvBodies : outcome' = read_csv(text)
    /\ UNCHANGED <<config, locals, posts, gets, sleeps, observed>>

Next ==
    \/ Submit
    \/ PollFirst
    \/ WarmUpSleep
    \/ PollRetry
    \/ RetrySleep
    \/ PollReturn
    \/ RunClassify
    \/ FetchClassify
    \/ Download

Spec == Init /\ [][Next]_vars

(* ------------------ the job: etl_athena_load_api.main ----------------- *)
JobDefaultRetry == 20
JobDefaultDelay == 15
\* lines 221-227: optional_args
PyInt(n) == [t |-> "int", v |-> <<n>>]
optional_args ==
    [work_group |-> PyStr("primary"),
     query_target_location |-> PyStr("athena"),
     assume_role |-> PyStr("no"),
     query_status_retry |-> PyInt(JobDefaultRetry),
     query_status_retry_delay |-> PyInt(JobDefaultDelay)]

\* the command lines tried: each optional argument given or not
JobArgvs ==
    [JOB_NAME : {"etl_athena_load_api"},
     work_group : {Absent, "AmazonAthenaEngineV3"},
     query_target_location : {Absent, "redshift"},
     assume_role : {Absent, "yes"},
     query_status_retry : {Absent, "2"},
     query_status_retry_delay : {Absent, "60"}]

\* int() of lines 242-243: an int is itself, a decimal text is its value
\* (the texts of JobArgvs)
int(x) ==
    IF x.t = "int" THEN x.v[1]
    ELSE CASE x.v[1] = "2" -> 2 [] x.v[1] = "60" -> 60

\* lines 228-233: args[k] = the argument (a str) when given, else the default v
resolved_args(av) ==
    [k \in OptionalArgs |-> IF av[k] # Absent THEN PyStr(av[k]) ELSE optional_args[k]]

\* lines 237-244: the keyword arguments main passes to execute_db_query
execute_db_query_kwargs(av) ==
    LET args == resolved_args(av) IN
    [work_group |-> optional_args["work_group"],
     query_target_location |-> optional_args["query_target_location"],
     assume_role |-> optional_args["assume_role"],
     retry |-> int(args["query_status_retry"]),
     delay |-> int(args["query_status_retry_delay"])]

\* the job started, nothing constructed yet
InitJob ==
    /\ argv \in JobArgvs
    /\ entry = "main"
    /\ self_retry = 0
    /\ self_delay = 0
    /\ self_query = <<>>
    /\ self_work_group = Absent
    /\ self_query_target_location = Absent
    /\ self_assume_role = Absent
    /\ pc = "main"
    /\ InitLocals

\* main lines 221-244 and 261-263, execute_db_query lines 189-199: resolve the
\* optional arguments, read the SQL file, construct the executor and call
\* fetch_query_results; no SQL file: sys.exit(1)
Main ==
    /\ pc = "main"
    /\ \/ /\ pc' = "done"
          /\ outcome' = Raised(Error("SystemExit", PyStr("1"), "main"))
          /\ UNCHANGED <<entry, self_retry, self_delay, self_query, self_work_group,
                         self_query_target_location, self_assume_role>>
       \/ LET kwargs == execute_db_query_kwargs(argv) IN
          /\ self_query' = RunQuery
          /\ self_work_group' = kwargs.work_group.v[1]
          /\ self_query_target_location' = kwargs.query_target_location.v[1]
          /\ self_assume_role' = kwargs.assume_role.v[1]
          /\ self_retry' = kwargs.retry
          /\ self_delay' = kwargs.delay
          /\ entry' = "fetch_query_results"
          /\ pc' = "submit"
          /\ UNCHANGED outcome
    /\ UNCHANGED <<argv, locals, posts, gets, sleeps, downloads, observed>>

NextJob == Main \/ Next

\* every way an executor gets run: by the job, or constructed by another caller
SpecJob == (InitJob \/ Init) /\ [][NextJob]_vars

(* ------------------ build_query_payload called alone ------------------ *)
\* an executor constructed with any query, work group, target and assume-role
InitPayload ==
    /\ entry = "build_query_payload"
    /\ self_retry = MaxRetry
    /\ self_delay \in Delays
    /\ self_query \in Queries
    /\ self_work_group \in WorkGroups
    /\ self_query_target_location \in Targets
    /\ self_assume_role \in AssumeRoles
    /\ argv = NoArgv
    /\ pc = "build"
    /\ InitLocals

\* lines 97-132: build_query_payload() returns the payload or raises
BuildPayload ==
    /\ pc = "build"
    /\ LET built == build_query_payload(self_query, self_work_group,
                                        self_query_target_location, self_assume_role) IN
       IF built.raised
       THEN Raise(built.err) /\ UNCHANGED payload
       ELSE /\ payload' = built.payload
            /\ pc' = "built"
            /\ outcome' = Returned("payload", Absent)
    /\ UNCHANGED <<config, query_id, response, query_status, retry, query_status_response,
                   download_link, received, posts, gets, sleeps, downloads, observed>>

SpecPayload == InitPayload /\ [][BuildPayload]_vars

(* ======================= properties of the run ======================== *)
Running == PyStr("RUNNING")
\* poll_query_status has returned a snapshot
PollReturned == query_status_response # NoResp
FinalData == query_status_response.data
\* every status GET issued so far was answered, and answered RUNNING
AlwaysRunning ==
    /\ Len(gets) >= 1
    /\ Len(observed) = Len(gets)
    /\ \A i \in 1..Len(observed) : observed[i] = Running
\* the submission POST was answered with a non-200 HTTP status
SubmitNon200 ==
    /\ Len(posts) >= 1
    /\ posts[1].has_status_code
    /\ posts[1].status_code # 200

\* C1: polling exhaustion.  While the remote answers RUNNING to every status
\* request, poll_query_status issues no more than 1 + self.retry GETs and does
\* not raise; when it returns it has issued exactly 1 + self.retry GETs (one
\* warm-up GET, self.retry loop GETs) and returns the last RUNNING snapshot.
C1_PollingExhaustion ==
    AlwaysRunning =>
        /\ Len(gets) <= 1 + self_retry
        /\ outcome.err.raised_in # "_safe_api_call"
        /\ (pc = "done") => PollReturned
        /\ PollReturned =>
            /\ Len(gets) = 1 + self_retry
            /\ retry = 1 + self_retry
            /\ query_status_response = response
            /\ FinalData.QueryStatus = "RUNNING"

C1_Witness ==
    /\ PollReturned
    /\ AlwaysRunning
    /\ self_retry >= 2
    /\ Len(gets) = 1 + self_retry

\* C2: poll-count bound.  The number of status GETs never exceeds
\* 1 + self.retry, whatever the remote answers; a run whose status leaves
\* RUNNING at some retry attempt has ended polling within that many GETs.
C2_PollCountBound ==
    /\ Len(gets) <= 1 + self_retry
    /\ (Len(observed) >= 1 /\ observed[Len(observed)] # Running /\ pc \notin {"warm_up", "loop"})
          => PollReturned /\ Len(gets) = Len(observed)

C2_Witness ==
    /\ PollReturned
    /\ self_retry >= 2
    /\ Len(gets) = 1 + self_retry
    /\ observed[Len(observed)] = PyStr("SUCCEEDED")
    /\ \A i \in 1..(Len(observed) - 1) : observed[i] = Running

\* C3: single handle per run.  A run issues its one submission POST first and
\* never a second one; every status GET goes to the status endpoint of the
\* QueryId that POST returned, and query_id never changes once set.
C3_SingleHandle ==
    /\ Len(posts) <= 1
    /\ (pc # "submit") => Len(posts) = 1
    /\ \A i \in 1..Len(gets) : gets[i] = <<"queries", posts[1].body.QueryId>>
    /\ (query_id # Absent) => query_id = posts[1].body.QueryId

C3_Witness ==
    /\ pc = "done"
    /\ Len(gets) >= 3
    /\ Len(posts) = 1
    /\ posts[1].body.QueryId = "q2"

\* C4: submission is never retried.  After a non-200 answer to the submission
\* POST the run has ended with the error _safe_api_call raises ("API call
\* failed: ..."); there is one POST and no status GET, sleep or download.
C4_SubmissionNotRetried ==
    SubmitNon200 =>
        /\ pc = "done"
        /\ outcome.kind = "raised"
        /\ outcome.err.type = "Exception"
        /\ outcome.err.raised_in = "_safe_api_call"
        /\ Contains(outcome.err.arg, "API call failed: ")
        /\ Len(posts) = 1
        /\ gets = <<>>
        /\ sleeps = <<>>
        /\ downloads = <<>>

C4_Witness ==
    /\ SubmitNon200
    /\ posts[1].json_ok
    /\ posts[1].body.QueryId # Absent

\* a call of fetch_query_results has ended after poll_query_status returned
FetchEnded == pc = "done" /\ entry = "fetch_query_results" /\ PollReturned
FinalStatusIs(st) == PollReturned /\ FinalData.QueryStatus = st

\* C5 as stated: fetch_query_results downloads if and only if the final
\* snapshot is SUCCEEDED, at most once, from that snapshot's link, and produces
\* a result set in no other case.
C5_DownloadIffSucceeded ==
    /\ Len(downloads) <= 1
    /\ \A i \in 1..Len(downloads) : downloads[i] = FinalData.ResultsDownloadLink
    /\ FetchEnded => (Len(downloads) = 1 <=> FinalData.QueryStatus = "SUCCEEDED")
    /\ (outcome.returns = "pd_df") => FinalStatusIs("SUCCEEDED")

\* C5 (amended): the download GET is issued at most once, only by
\* fetch_query_results, only when the final snapshot is SUCCEEDED, and from
\* that snapshot's ResultsDownloadLink; it is issued whenever the final
\* snapshot is SUCCEEDED and carries a ResultsDownloadLink (without the link
\* the call ends with a KeyError and no download); a result set is produced
\* only after that download.
C5_DownloadOnlyAfterSuccess ==
    /\ Len(downloads) <= 1
    /\ (downloads # <<>>) =>
        /\ entry = "fetch_query_results"
        /\ FinalStatusIs("SUCCEEDED")
        /\ downloads[1] = FinalData.ResultsDownloadLink
        /\ downloads[1] # Absent
    /\ (FetchEnded /\ FinalData.QueryStatus = "SUCCEEDED") =>
        IF Has(FinalData, "ResultsDownloadLink")
        THEN Len(downloads) = 1
        ELSE /\ downloads = <<>>
             /\ outcome = Raised(Error("KeyError", PyStr("ResultsDownloadLink"),
                                       "fetch_query_results"))
    /\ (FetchEnded /\ FinalData.QueryStatus # "SUCCEEDED") => downloads = <<>>
    /\ (outcome.returns = "pd_df") => Len(downloads) = 1

C5_Witness ==
    /\ FetchEnded
    /\ Len(gets) >= 2
    /\ Len(downloads) = 1
    /\ outcome.returns = "pd_df"

\* what a run raises for a FAILED final snapshot carrying Message m (m may be Absent)
FailedQueryError(m) == run_classify(Dict(Absent, "FAILED", m, Absent)).err

C7_FailedCarriesMessage ==
    (FetchEnded /\ FinalData.QueryStatus = "FAILED" /\ Has(FinalData, "Message")) =>
        /\ outcome.kind = "raised"
        /\ outcome.err.type = "Exception"
        /\ Contains(outcome.err.arg, FinalData.Message)
        /\ downloads = <<>>

C7_Witness ==
    /\ FetchEnded
    /\ FinalData.QueryStatus = "FAILED"
    /\ FinalData.Message = "syntax error"
    /\ outcome.kind = "raised"

\* C8 as stated: fetch_query_results on a final status that is neither
\* SUCCEEDED, RUNNING nor FAILED returns no data and does not raise.
C8_UnknownStatusIsSoft ==
    (FetchEnded /\ Has(FinalData, "QueryStatus")
                /\ FinalData.QueryStatus \notin {"SUCCEEDED", "RUNNING", "FAILED"}) =>
        /\ outcome.kind = "returned"
        /\ outcome.returns = "None"

\* C9: run returns the snapshot normally exactly when the final status is
\* SUCCEEDED or RUNNING; for every other status it raises, from run, an
\* Exception whose argument is the remote Message (None when there is none).
\* The same holds of the run() call inside fetch_query_results.
C9_RunClassifies ==
    /\ (pc = "done" /\ entry = "run" /\ PollReturned) =>
        /\ (outcome.kind = "returned") <=> (FinalData.QueryStatus \in {"SUCCEEDED", "RUNNING"})
        /\ (outcome.kind = "returned") => outcome.returns = "query_status_response"
    /\ (pc = "done" /\ PollReturned /\ Has(FinalData, "QueryStatus")
                    /\ FinalData.QueryStatus \notin {"SUCCEEDED", "RUNNING"}) =>
        outcome = Raised(Error("Exception",
                               IF Has(FinalData, "Message")
                               THEN PyStr(FinalData.Message) ELSE None,
                               "run"))
    /\ (pc = "fetch_classify") => FinalData.QueryStatus \in {"SUCCEEDED", "RUNNING"}

C9_Witness ==
    /\ pc = "done"
    /\ entry = "run"
    /\ FinalData.QueryStatus = "RUNNING"
    /\ Len(gets) >= 2
    /\ outcome.kind = "returned"

\* C10 as stated: a FAILED final snapshot surfaces, to the caller of
\* fetch_query_results, the remote Message when there is one and a non-empty
\* default text when there is none.
C10_FailedSurfacesNotice ==
    (FetchEnded /\ FinalData.QueryStatus = "FAILED") =>
        /\ outcome.kind = "raised"
        /\ IF Has(FinalData, "Message")
           THEN Contains(outcome.err.arg, FinalData.Message)
           ELSE /\ outcome.err.arg.t = "str"
                /\ outcome.err.arg.v \notin {<<>>, <<"">>}

\* C15: terminality of a non-RUNNING status.  A status GET answered with a
\* status other than RUNNING (or with none) is the last GET of the run; the
\* only sleep that can follow it is the warm-up sleep after the first GET,
\* never a retry-delay sleep; poll_query_status returns that very snapshot.
C15_NonRunningIsTerminal ==
    \A i \in 1..Len(observed) :
        observed[i] # Running =>
            /\ i = Len(observed)
            /\ Len(gets) = i
            /\ Len(sleeps) <= (IF i = 1 THEN 1 ELSE i - 1)
            /\ pc \notin {"poll_first", "retry_sleep"}
            /\ (pc \notin {"warm_up", "loop"}) => PollReturned
            /\ PollReturned =>
                /\ query_status_response = response
                /\ DictGet(FinalData, "QueryStatus", None) = observed[i]

C15_Witness ==
    /\ pc = "done"
    /\ Len(observed) = 2
    /\ self_retry = MaxRetry
    /\ observed[2] = PyStr("FAILED")
    /\ sleeps = <<WarmUpDelay>>

\* a status GET was not answered with a 200 response whose body parses
PollFailed == Len(gets) > Len(observed)
BadAnswer == received.has_status_code /\ (received.status_code # 200 \/ ~received.json_ok)

\* C16: a failing poll aborts the run.  A status GET (the first or a retry)
\* answered with a non-200 status or a body that does not parse ends the call
\* at once with the error of _safe_api_call: it is the last GET, no sleep and
\* no download follow it, and the retry counter is not advanced by it.
C16_FailingPollAborts ==
    /\ (Len(gets) >= 1 /\ BadAnswer) => PollFailed
    /\ PollFailed =>
        /\ BadAnswer
        /\ pc = "done"
        /\ outcome.kind = "raised"
        /\ outcome.err.raised_in = "_safe_api_call"
        /\ Contains(outcome.err.arg, "API call failed: ")
        /\ ~PollReturned
        /\ Len(gets) = Len(observed) + 1
        /\ Len(sleeps) = Len(observed)
        /\ retry = (IF Len(observed) = 0 THEN 1 ELSE Len(observed))
        /\ downloads = <<>>

C16_Witness ==
    /\ PollFailed
    /\ Len(gets) = 3
    /\ received.status_code = 200
    /\ ~received.json_ok

\* the submission POST was answered successfully, with a body lacking QueryId
SubmitNoQueryId ==
    /\ Len(posts) = 1
    /\ posts[1].json_ok
    /\ posts[1].has_status_code => posts[1].status_code = 200
    /\ ~Has(posts[1].body, "QueryId")

\* C17: malformed success response to the submission.  A POST answered 200
\* with a body that parses but has no QueryId ends the run with the KeyError
\* of line 208, before any status GET: no poll, sleep or download.
C17_MissingQueryId ==
    SubmitNoQueryId =>
        /\ pc = "done"
        /\ outcome = Raised(Error("KeyError", PyStr("QueryId"), "run"))
        /\ query_id = Absent
        /\ gets = <<>>
        /\ sleeps = <<>>
        /\ downloads = <<>>

C17_Witness ==
    /\ SubmitNoQueryId
    /\ posts[1].has_status_code
    /\ posts[1].body.Message # Absent

\* C18: warm-up step.  Once the first status GET has succeeded the next step is
\* one sleep of 20, whatever the status observed; it comes before every retry
\* GET, it is the first sleep of the run and the only one that is not a
\* retry-delay sleep: one retry-delay sleep per retry counted, no other.
C18_WarmUpOnce ==
    /\ (pc = "warm_up") => (Len(gets) = 1 /\ Len(observed) = 1 /\ sleeps = <<>>)
    /\ (Len(observed) >= 1 /\ pc # "warm_up") => Len(sleeps) >= 1
    /\ (Len(gets) >= 2) => Len(sleeps) >= 1
    /\ (sleeps # <<>>) =>
        /\ Len(observed) >= 1
        /\ sleeps[1] = 20
        /\ \A i \in 2..Len(sleeps) : sleeps[i] = self_delay
        /\ Len(sleeps) = (IF pc = "retry_sleep" THEN retry - 1 ELSE retry)

C18_Witness ==
    /\ pc = "done"
    /\ Len(observed) = 1
    /\ observed[1] = PyStr("FAILED")
    /\ sleeps = <<20>>

\* str(status_code) for the status codes of StatusLines
CodeText(code) == CASE code = 200 -> "200" [] code = 500 -> "500"
\* the last remote call was answered with a non-200 HTTP status
LastNon200 == received.has_status_code /\ received.status_code # 200

\* C13 as stated: after a remote call answered with a non-success HTTP
\* status, the error raised carries the remote status code and the remote
\* reason text, whatever the body.
C13_ApiErrorCarriesCodeAndReason ==
    LastNon200 =>
        /\ outcome.kind = "raised"
        /\ outcome.err.raised_in = "_safe_api_call"
        /\ Contains(outcome.err.arg, CodeText(received.status_code))
        /\ Contains(outcome.err.arg, received.reason)

(* ===================== properties of the payload ====================== *)
B64Index(c) == CHOOSE n \in 0..63 : B64Chars[n + 1] = c
\* base64 decoding (RFC 4648): four characters to three bytes, '=' is padding
RECURSIVE b64decode(_)
b64decode(cs) ==
    IF Len(cs) < 4 THEN <<>>
    ELSE LET n1 == B64Index(cs[1])
             n2 == B64Index(cs[2])
             b1 == n1 * 4 + n2 \div 16
             rest == b64decode(SubSeq(cs, 5, Len(cs)))
         IN IF cs[3] = "=" THEN <<b1>> \o rest
            ELSE LET n3 == B64Index(cs[3])
                     b2 == (n2 % 16) * 16 + n3 \div 4
                 IN IF cs[4] = "=" THEN <<b1, b2>> \o rest
                    ELSE <<b1, b2, (n3 % 4) * 64 + B64Index(cs[4])>> \o rest

PayloadBuilt == payload # NoPayload

\* C11: target-location branching.  For the target "athena" the payload has
\* exactly the fields QueryString, Encoding, WorkGroup, AssumeRole (with the
\* executor's work group and assume-role); for every other target exactly
\* QueryString, Encoding, QueryTargetLocation (with that target); no payload
\* carries QueryTargetLocation together with WorkGroup or AssumeRole.
C11_TargetBranching ==
    PayloadBuilt =>
        /\ IF self_query_target_location = "athena"
           THEN /\ DOMAIN payload = {"QueryString", "Encoding", "WorkGroup", "AssumeRole"}
                /\ payload.WorkGroup = self_work_group
                /\ payload.AssumeRole = self_assume_role
           ELSE /\ DOMAIN payload = {"QueryString", "Encoding", "QueryTargetLocation"}
                /\ payload.QueryTargetLocation = self_query_target_location
        /\ ~("QueryTargetLocation" \in DOMAIN payload
                /\ {"WorkGroup", "AssumeRole"} \cap DOMAIN payload # {})

C11_Witness ==
    /\ pc = "built"
    /\ self_query_target_location = "ATHENA"
    /\ self_work_group = "AmazonAthenaEngineV3"
    /\ "QueryTargetLocation" \in DOMAIN payload

\* C12: payload round trip.  build_query_payload succeeds on every ASCII
\* query; base64-decoding the QueryString of its payload gives the query back
\* exactly, and the Encoding field is "base64".
C12_RoundTrip ==
    /\ (pc = "done" /\ entry = "build_query_payload") => ~IsAscii(self_query)
    /\ PayloadBuilt =>
        /\ IsAscii(self_query)
        /\ payload.Encoding = "base64"
        /\ Len(payload.QueryString) = 4 * ((Len(self_query) + 2) \div 3)
        /\ b64decode(payload.QueryString) = self_query

C12_Witness ==
    /\ pc = "built"
    /\ self_query = <<83, 126>>
    /\ payload.QueryString = <<"U", "3", "4", "=">>

(* ======================= properties of the job ======================== *)
\* the value the job was asked to use for the optional argument k
Requested(k) == IF argv[k] # Absent THEN argv[k] ELSE optional_args[k].v[1]
\* main has constructed the executor
Constructed == pc \notin {"main"} /\ entry = "fetch_query_results"

\* C14 as stated: the executor is constructed with the work group, target
\* location and assume-role given on the command line (the default when not
\* given), and the submitted payload carries them.
C14_ArgumentsReachQuery ==
    Constructed =>
        /\ self_work_group = Requested("work_group")
        /\ self_query_target_location = Requested("query_target_location")
        /\ self_assume_role = Requested("assume_role")
        /\ PayloadBuilt =>
            IF Requested("query_target_location") = "athena"
            THEN /\ payload.WorkGroup = Requested("work_group")
                 /\ payload.AssumeRole = Requested("assume_role")
            ELSE payload.QueryTargetLocation = Requested("query_target_location")

(* ===================== waiting and termination ===================== *)

\* a sequential program: a step that can be taken is taken
SpecFair == Spec /\ WF_vars(Next)

RECURSIVE Sum(_)
Sum(seq) == IF seq = <<>> THEN 0 ELSE Head(seq) + Sum(Tail(seq))

\* the retry-delay sleeps: every sleep after the warm-up sleep
RetrySleeps == IF sleeps = <<>> THEN <<>> ELSE Tail(sleeps)

\* the run was started by the job, which names itself on its command line
IsJob == argv.JOB_NAME # Absent

\* C19: polling wait window.  The retry-delay sleeps of one run add up to at
\* most retry x delay, so the whole wait is at most the warm-up of 20 plus
\* retry x delay; a job started without the two retry arguments polls with
\* retry 20 and delay 15, at most 300 of retry-delay sleep.
C19_WaitWindow ==
    /\ Sum(RetrySleeps) <= self_retry * self_delay
    /\ Sum(sleeps) <= WarmUpDelay + self_retry * self_delay
    /\ (/\ IsJob
        /\ Constructed
        /\ argv.query_status_retry = Absent
        /\ argv.query_status_retry_delay = Absent) =>
            /\ self_retry = 20
            /\ self_delay = 15
            /\ Sum(RetrySleeps) <= 300

C19_Witness ==
    /\ IsJob
    /\ argv.query_status_retry = Absent
    /\ argv.query_status_retry_delay = Absent
    /\ pc = "done"
    /\ Sum(RetrySleeps) = 300
    /\ AlwaysRunning

\* the steps left to a run of the executor, at most
Rank ==
    CASE pc = "submit" -> 2 * self_retry + 7
      [] pc = "poll_first" -> 2 * self_retry + 6
      [] pc = "warm_up" -> 2 * self_retry + 5
      [] pc = "loop" -> 2 * (self_retry + 1 - retry) + 4
      [] pc = "retry_sleep" -> 2 * (self_retry + 1 - retry) + 5
      [] pc = "run_classify" -> 3
      [] pc = "fetch_classify" -> 2
      [] pc = "download" -> 1
      [] OTHER -> 0

\* C20: termination.  Every run ends: each step lowers a natural-number rank
\* bounded by the retry budget, a run whose steps keep being taken reaches its
\* end, and a run of fetch_query_results ends either with a table read from
\* the download link of a SUCCEEDED query or with an error raised.
C20_Witness ==
    /\ pc = "done"
    /\ entry = "fetch_query_results"
    /\ self_retry = MaxRetry
    /\ Len(gets) = MaxRetry + 1
    /\ outcome.kind = "returned"

C20_Termination ==
    /\ [][Rank' < Rank]_vars
    /\ [](Rank \in Nat)
    /\ <>(pc = "done")
    /\ []((pc = "done" /\ entry = "fetch_query_results") =>
            \/ outcome.kind = "raised"
            \/ /\ outcome.kind = "returned"
               /\ FinalStatusIs("SUCCEEDED")
               /\ Len(downloads) = 1)

====
